---- MODULE Spec2Model ----
(***************************************************************************)
(* bg-heatmaps: the cutting plane (src/bgheatmaps/plane.py) and the 2D     *)
(* scene (src/bgheatmaps/scene2d.py).                                      *)
(*                                                                         *)
(* Numbers are exact rationals <<n, d>> (d > 0, lowest terms); <<0, 0>> is *)
(* numpy's nan.  Input vectors are integer vectors whose Euclidean length  *)
(* is rational, so that every np.linalg.norm of the model is exact.        *)
(***************************************************************************)
EXTENDS Integers, Sequences, FiniteSets, TLC

VARIABLES
    call,       \* the last Plane(...) / Plane.from_norm(...) call: its arguments, and
                \* n, how many constructor calls were made since the last Discard
    plane,      \* <<>> or <<the Plane object the last call produced>>
    err,        \* "none", or the exception the last call raised
    proj,       \* <<>> or <<the last P3toP2 call: a, b, the point, the output>>
    actors,     \* get_projections: its argument, a list of actors
    todo,       \* get_projections: the positions of `actors` the loop has not reached
    projected,  \* get_projections: the dict, as its (key, value) pairs in insertion order
    gpc,        \* get_projections: "idle", "loop" (in the for loop) or "done" (returned)
    run,        \* how many times get_projections was called on `actors` with `plane`
    ret,        \* <<>> or <<what the first of two calls returned>>
    sceneActors,\* Scene2D.actors: the actors of the scene, in order
    nextId,     \* the identity the next Actor object created gets
    sret        \* the last Scene2D call: its name, its arguments (of add), the scene
                \* before it, what it returned or raised

planeVars == <<call, plane, err, proj>>

sliceVars == <<actors, todo, projected, gpc, run, ret>>

sceneVars == <<sceneActors, nextId, sret>>

vars == <<call, plane, err, proj, actors, todo, projected, gpc, run, ret,
          sceneActors, nextId, sret>>

(***************************** bounds **************************************)
MaxCoord == 4       \* input vector components range over -MaxCoord..MaxCoord
MaxScalar == 2      \* plane coordinates a, b range over -MaxScalar..MaxScalar
MaxActors == 2      \* get_projections is given at most MaxActors actors
MaxItems == 2       \* Scene2D.add, add_brain_region and remove take at most MaxItems arguments
MaxIds == 3         \* at most MaxIds Actor objects are created in a scene
MaxScene == 2       \* add and add_brain_region are called while the scene holds fewer than MaxScene actors

(************************* numpy float arithmetic **************************)
Abs(x) == IF x < 0 THEN -x ELSE x

RECURSIVE Gcd(_, _)
Gcd(a, b) == IF b = 0 THEN a ELSE Gcd(b, a % b)

NaN == <<0, 0>>

IsNaN(x) == x[2] = 0

\* the float n/d, d # 0
Rat(n, d) ==
    LET g == Gcd(Abs(n), Abs(d))
        s == IF d < 0 THEN -1 ELSE 1
    IN  <<(s * n) \div g, (s * d) \div g>>

Int2R(n) == <<n, 1>>

RAdd(x, y) == IF IsNaN(x) \/ IsNaN(y) THEN NaN
              ELSE Rat(x[1] * y[2] + y[1] * x[2], x[2] * y[2])

RNeg(x) == IF IsNaN(x) THEN NaN ELSE <<-x[1], x[2]>>

RSub(x, y) == RAdd(x, RNeg(y))

RMul(x, y) == IF IsNaN(x) \/ IsNaN(y) THEN NaN
              ELSE Rat(x[1] * y[1], x[2] * y[2])

\* x / y; the only division by zero of the program is 0.0 / 0.0 = nan
\* (the components of a vector of length 0 are all 0)
RDiv(x, y) == IF IsNaN(x) \/ IsNaN(y) \/ y[1] = 0 THEN NaN
              ELSE Rat(x[1] * y[2], x[2] * y[1])

IsSquare(n) == \E k \in 0..n : k * k = n

ISqrt(n) == CHOOSE k \in 0..n : k * k = n

RSqrt(x) == IF IsNaN(x) THEN NaN ELSE <<ISqrt(x[1]), ISqrt(x[2])>>

\* np.isclose(x, 0): |x - 0| <= atol + rtol * |0|, atol = 1e-8; nan is close to nothing
IsCloseAtolInv == 100000000

IsClose0(x) == ~IsNaN(x) /\ Abs(x[1]) <= x[2] \div IsCloseAtolInv

Vec(x, y, z) == <<Int2R(x), Int2R(y), Int2R(z)>>

ZeroVec == Vec(0, 0, 0)

VAdd(p, q) == [i \in 1..3 |-> RAdd(p[i], q[i])]

VSub(p, q) == [i \in 1..3 |-> RSub(p[i], q[i])]

VScale(r, p) == [i \in 1..3 |-> RMul(r, p[i])]

VDiv(p, r) == [i \in 1..3 |-> RDiv(p[i], r)]

Dot(p, q) == RAdd(RAdd(RMul(p[1], q[1]), RMul(p[2], q[2])), RMul(p[3], q[3]))

Cross(p, q) ==
    << RSub(RMul(p[2], q[3]), RMul(p[3], q[2])),
       RSub(RMul(p[3], q[1]), RMul(p[1], q[3])),
       RSub(RMul(p[1], q[2]), RMul(p[2], q[1])) >>

\* np.linalg.norm
Norm(p) == RSqrt(Dot(p, p))

(******************************* Plane *************************************)
Failure(e) == [plane |-> <<>>, err |-> e]

\* Plane.__init__ without its assert
PlaneInitNoAssert(origin, u, v) ==
    LET su == VDiv(u, Norm(u))
        sv == VDiv(v, Norm(v))
    IN  [plane |-> << [center |-> origin, u |-> su, v |-> sv,
                        normal |-> Cross(su, sv), M |-> <<u, v>>] >>,
         err |-> "none"]

\* Plane.__init__ storing the axes as given (self.u = u, self.v = v)
PlaneInitRawAxes(origin, u, v) ==
    IF ~IsClose0(Dot(VDiv(u, Norm(u)), VDiv(v, Norm(v))))
    THEN Failure("AssertionError")
    ELSE [plane |-> << [center |-> origin, u |-> u, v |-> v,
                        normal |-> Cross(u, v), M |-> <<u, v>>] >>,
          err |-> "none"]

\* Plane.__init__
PlaneInit(origin, u, v) ==
    LET su == VDiv(u, Norm(u))
        sv == VDiv(v, Norm(v))
    IN  IF ~IsClose0(Dot(su, sv))
        THEN Failure("AssertionError")
        ELSE [plane |-> << [center |-> origin,
                            u |-> su,
                            v |-> sv,
                            normal |-> Cross(su, sv),
                            M |-> <<u, v>>] >>,     \* the columns of M
              err |-> "none"]

\* np.where(norm != 0)[0]: the (0-based) indices of the non-zero components, ascending
WhereNonZero(norm) ==
    LET F[i \in 0..3] ==
            IF i = 3 THEN <<>>
            ELSE IF norm[i + 1][1] # 0 THEN <<i>> \o F[i + 1] ELSE F[i + 1]
    IN  F[0]

\* m = np.where(norm != 0)[0][-1]
LastNonZero(norm) == {WhereNonZero(norm)[Len(WhereNonZero(norm))]}

\* the values m = np.where(norm != 0)[0][0] can take
FirstNonZero(norm) == {WhereNonZero(norm)[1]}

\* Plane.from_norm with v = np.cross(u, norm)
FromNormAtFlipped(origin, norm, m) ==
    LET n == (m + 1) % 3
        u0 == [i \in 1..3 |->
                 IF i = m + 1 THEN RNeg(norm[n + 1])
                 ELSE IF i = n + 1 THEN norm[m + 1]
                 ELSE Int2R(0)]
        nrm == VDiv(norm, Norm(norm))
        u == VDiv(u0, Norm(u0))
        v == Cross(u, nrm)
    IN  PlaneInit(origin, u, v)

\* Plane.from_norm after m is found
FromNormAt(origin, norm, m) ==
    LET n == (m + 1) % 3
        u0 == [i \in 1..3 |->
                 IF i = m + 1 THEN RNeg(norm[n + 1])
                 ELSE IF i = n + 1 THEN norm[m + 1]
                 ELSE Int2R(0)]
        nrm == VDiv(norm, Norm(norm))
        u == VDiv(u0, Norm(u0))
        v == Cross(nrm, u)
    IN  PlaneInit(origin, u, v)

\* Plane.P3toP2: (ps - self.center) @ self.M
P3toP2(pl, ps) ==
    [k \in DOMAIN ps |->
        << Dot(VSub(ps[k], pl.center), pl.M[1]),
           Dot(VSub(ps[k], pl.center), pl.M[2]) >>]

(*************************** get_projections *******************************)
\* The contour a mesh leaves on a cutting plane, in the plane's own coordinates:
\* its connected pieces in discovery order, each an ordered list of points.
\* Mesh 0 does not meet the plane, mesh 1 is cut in one piece, mesh 2 in two.
MeshContour(mesh) ==
    CASE mesh = 0 -> <<>>
      [] mesh = 1 -> << << <<0, 0>>, <<1, 0>>, <<1, 1>> >> >>
      [] mesh = 2 -> << << <<0, 0>>, <<2, 0>> >>, << <<0, 1>>, <<-1, 1>>, <<-1, 2>> >> >>

MeshIds == 0..2

\* intersectWith(mesh).splitByConnectivity(), each piece as piece.join(reset=True).points():
\* 3D points on the plane through pl.center with normal pl.normal
IntersectWith(pl, mesh) ==
    LET c == MeshContour(mesh)
    IN  [i \in DOMAIN c |->
            [k \in DOMAIN c[i] |->
                VAdd(VAdd(pl.center, VScale(Int2R(c[i][k][1]), pl.u)),
                     VScale(Int2R(c[i][k][2]), pl.v))]]

\* intersection.points().shape[0]
RECURSIVE NumPoints(_)
NumPoints(pieces) ==
    IF pieces = <<>> THEN 0 ELSE Len(Head(pieces)) + NumPoints(Tail(pieces))

\* actor.name + f"_segment_{piece_n}" with the piece number dropped
SegmentKeyNoIndex(name, piece_n) == name \o "_segment_"

\* actor.name + f"_segment_{piece_n}"
SegmentKey(name, piece_n) == name \o "_segment_" \o ToString(piece_n)

HasKey(d, key) == \E i \in DOMAIN d : d[i].key = key

\* d[key] = value of a Python dict: a known key keeps its place, a new one goes last
DictSet(d, key, value) ==
    IF HasKey(d, key)
    THEN [i \in DOMAIN d |-> IF d[i].key = key THEN [key |-> key, value |-> value] ELSE d[i]]
    ELSE Append(d, [key |-> key, value |-> value])

\* the mesh get_projections cuts: actor._mesh if the actor has one, else actor.mesh
ActorMesh(actor) == IF actor.sliced # -1 THEN actor.sliced ELSE actor.mesh

\* the inner loop: for piece_n, piece in enumerate(pieces), from piece number n on
RECURSIVE AddPieces(_, _, _, _, _)
AddPieces(pl, d, name, pieces, n) ==
    IF n >= Len(pieces) THEN d
    ELSE AddPieces(pl, DictSet(d, SegmentKey(name, n), P3toP2(pl, pieces[n + 1])),
                   name, pieces, n + 1)

\* one pass of the loop body that emits an (empty) entry for an empty intersection too
LoopBodyEmitEmpty(pl, d, actor) ==
    LET pieces == IntersectWith(pl, ActorMesh(actor))
    IN  IF NumPoints(pieces) = 0 THEN DictSet(d, SegmentKey(actor.name, 0), <<>>)
        ELSE AddPieces(pl, d, actor.name, pieces, 0)

\* one pass of the body of `for actor in actors`
LoopBody(pl, d, actor) ==
    LET pieces == IntersectWith(pl, ActorMesh(actor))
    IN  IF NumPoints(pieces) = 0 THEN d
        ELSE AddPieces(pl, d, actor.name, pieces, 0)

Min(S) == CHOOSE x \in S : \A y \in S : x <= y

\* an iteration that takes the remaining actors in no fixed order
AnyActor(remaining) == remaining

\* the position `for actor in actors` reaches next: a list is walked in order
NextActor(remaining) == {Min(remaining)}

(******************************* Scene2D ***********************************)
\* Python's None where a string is expected
None == "None"

NewActor(id, name, cls, text) ==
    [id |-> id, name |-> name, br_class |-> cls, is_text |-> text, cut |-> FALSE]

\* an Actor object built outside the scene and handed to add()
ExtActor == NewActor(0, "ext", "brain region", FALSE)

\* what add() is handed: a vedo Mesh, Text2D or Volume, None, a path to a mesh
\* file that exists ("file.obj") or not ("missing.obj"), an Actor, or anything
\* else (an "int")
Item(kind) == [kind |-> kind, actor |-> ExtActor]

ActorItem(a) == [kind |-> "Actor", actor |-> a]

\* names or [None for a in items]; listify(names)
ListOrNones(arg, items) == IF arg = <<>> THEN [i \in DOMAIN items |-> None] ELSE arg

\* len(zip(items, listify(names), listify(classes)))
ZipLen(items, names, classes) ==
    LET a == Len(items)
        b == Len(ListOrNones(names, items))
        c == Len(ListOrNones(classes, items))
        ab == IF a < b THEN a ELSE b
    IN  IF ab < c THEN ab ELSE c

\* the loop of add() that turns items into Actors, from position i on:
\* the actors built, the next fresh identity, and the exception raised
RECURSIVE TurnIntoActors(_, _, _, _, _, _)
TurnIntoActors(items, names, classes, i, built, id) ==
    IF i > ZipLen(items, names, classes)
    THEN [actors |-> built, id |-> id, err |-> "none"]
    ELSE LET item == items[i].kind
             name == ListOrNones(names, items)[i]
             cls == ListOrNones(classes, items)[i]
         IN  CASE item = "None" ->
                    TurnIntoActors(items, names, classes, i + 1, built, id)
               [] item \in {"Mesh", "Volume"} ->
                    TurnIntoActors(items, names, classes, i + 1,
                                   Append(built, NewActor(id, name, cls, FALSE)), id + 1)
               [] item = "Text2D" ->
                    TurnIntoActors(items, names, classes, i + 1,
                                   Append(built, NewActor(id, name, cls, TRUE)), id + 1)
               [] item = "Actor" ->
                    TurnIntoActors(items, names, classes, i + 1, Append(built, items[i].actor), id)
               [] item = "file.obj" ->
                    TurnIntoActors(items, names, classes, i + 1,
                                   Append(built, NewActor(id,
                                                          IF name = None THEN "file.obj" ELSE name,
                                                          IF cls = None THEN "from file" ELSE cls,
                                                          FALSE)), id + 1)
               [] item = "missing.obj" ->
                    [actors |-> built, id |-> id, err |-> "FileNotFoundError"]
               [] OTHER ->
                    [actors |-> built, id |-> id, err |-> "ValueError"]

\* return_list_smart
ReturnListSmart(l) ==
    IF Len(l) > 1 THEN [kind |-> "list", actors |-> l]
    ELSE IF Len(l) = 1 THEN [kind |-> "one", actors |-> l]
    ELSE [kind |-> "None", actors |-> <<>>]

\* Scene2D.add that extends self.actors as soon as an actor is built
AddEager(scene, id, items, names, classes) ==
    LET t == TurnIntoActors(items, names, classes, 1, <<>>, id)
    IN  [scene |-> scene \o t.actors, id |-> t.id, err |-> t.err,
         ret |-> IF t.err = "none" THEN ReturnListSmart(t.actors) ELSE ReturnListSmart(<<>>)]

\* Scene2D.add: the scene afterwards, the next fresh identity, what is raised or returned
Add(scene, id, items, names, classes) ==
    LET t == TurnIntoActors(items, names, classes, 1, <<>>, id)
    IN  IF t.err # "none"
        THEN [scene |-> scene, id |-> t.id, err |-> t.err, ret |-> ReturnListSmart(<<>>)]
        ELSE [scene |-> scene \o t.actors, id |-> t.id, err |-> "none",
              ret |-> ReturnListSmart(t.actors)]

\* self.actors.pop(self.actors.index(act)); an actor not in the scene is reported and skipped
RECURSIVE RemoveAll(_, _)
RemoveAll(scene, acts) ==
    IF acts = <<>> THEN scene
    ELSE LET act == Head(acts)
         IN  IF \E i \in DOMAIN scene : scene[i] = act
             THEN LET i == CHOOSE j \in DOMAIN scene :
                              scene[j] = act /\ \A h \in 1..(j - 1) : scene[h] # act
                  IN  RemoveAll(SubSeq(scene, 1, i - 1) \o SubSeq(scene, i + 1, Len(scene)),
                                Tail(acts))
             ELSE RemoveAll(scene, Tail(acts))

\* Scene2D.get_actors(br_class=...)
GetActorsOfClass(scene, cls) == SelectSeq(scene, LAMBDA m : m.br_class = cls)

\* the regions the atlas has a mesh for
AtlasRegions == {"root", "TH"}

\* atlas.get_region(*regions) before return_list_smart: one "brain region" Actor
\* per region the atlas knows, in argument order
RECURSIVE GetRegion(_, _)
GetRegion(regions, id) ==
    IF regions = <<>> THEN <<>>
    ELSE IF Head(regions) \in AtlasRegions
         THEN <<NewActor(id, Head(regions), "brain region", FALSE)>>
                  \o GetRegion(Tail(regions), id + 1)
         ELSE GetRegion(Tail(regions), id)

\* actor.cutWithPlane(...); actor.cap() on the actors add_brain_region got back
CutActors(scene, cutIds) ==
    [i \in DOMAIN scene |->
        IF scene[i].id \in cutIds THEN [scene[i] EXCEPT !.cut = TRUE] ELSE scene[i]]

\* Scene2D.add_brain_region
AddBrainRegion(scene, id, regions, hemisphere) ==
    LET in_scene == GetActorsOfClass(scene, "brain region")
        already_in == {in_scene[i].name : i \in DOMAIN in_scene}
        wanted == SelectSeq(regions, LAMBDA r : r \notin already_in)
        got == GetRegion(wanted, id)
        \* listify(return_list_smart(got)) or []: no actor at all becomes [None]
        items == IF got = <<>> THEN <<Item("None")>>
                 ELSE [i \in DOMAIN got |-> ActorItem(got[i])]
        added == Add(scene, id + Len(got), items, <<>>, <<>>)
        ids == {added.ret.actors[i].id : i \in DOMAIN added.ret.actors}
    IN  IF wanted = <<>>
        THEN [scene |-> scene, id |-> id, err |-> "none", ret |-> ReturnListSmart(<<>>)]
        ELSE IF hemisphere \in {"left", "right"}
             THEN IF added.ret.kind = "None"
                  THEN [added EXCEPT !.err = "AttributeError"]
                  ELSE [added EXCEPT !.scene = CutActors(added.scene, ids),
                                     !.ret.actors = CutActors(added.ret.actors, ids)]
             ELSE added

(******************************* inputs ************************************)
Coords == (-MaxCoord)..MaxCoord

\* integer vectors of rational length
Vectors ==
    {Vec(x, y, z) : <<x, y, z>> \in
        {t \in Coords \X Coords \X Coords :
            IsSquare(t[1] * t[1] + t[2] * t[2] + t[3] * t[3])}}

\* normals whose derived in-plane axis has rational length as well
Normals ==
    {w \in Vectors :
        \/ w = ZeroVec
        \/ LET m == WhereNonZero(w)[1]
               n == (m + 1) % 3
           IN  IsSquare(w[m + 1][1] * w[m + 1][1] + w[n + 1][1] * w[n + 1][1])}

Origins == {Vec(0, 0, 0), Vec(1, -2, 3)}

Scalars == (-MaxScalar)..MaxScalar

ActorNames == {"a", "b"}

\* actors without a _mesh (sliced = -1), and two that carry a sliced _mesh
ActorPool ==
    [name : ActorNames, mesh : MeshIds, sliced : {-1}]
        \cup {[name |-> "a", mesh |-> 0, sliced |-> 2], [name |-> "b", mesh |-> 2, sliced |-> 0]}

RECURSIVE ListsUpTo(_, _)
ListsUpTo(S, n) ==
    IF n = 0 THEN {<<>>}
    ELSE ListsUpTo(S, n - 1) \cup {Append(l, x) : l \in {q \in ListsUpTo(S, n - 1) : Len(q) = n - 1}, x \in S}

ActorLists == ListsUpTo(ActorPool, MaxActors)

\* the planes the slicing runs are made with
SliceNormals == {Vec(0, 0, 1), Vec(0, 3, 4), Vec(-2, 0, 0), ZeroVec}

SliceAxes == {<<Vec(2, 0, 0), Vec(0, 0, 3)>>, <<Vec(0, 1, 0), Vec(1, 0, 0)>>,
              <<Vec(1, 0, 0), Vec(1, 0, 0)>>}

ItemKinds == {"None", "Mesh", "Text2D", "Volume", "Actor", "file.obj", "missing.obj", "int"}

ItemLists == ListsUpTo({Item(k) : k \in ItemKinds}, MaxItems)

\* the argument lists with a path that load_mesh_from_file cannot load
UnloadableLists == {l \in ItemLists : \E i \in DOMAIN l : l[i].kind = "missing.obj"}

\* names= and classes=: omitted (or empty) is <<>>, else a list of strings
NameArgs == ListsUpTo({"n"}, MaxItems)

ClassArgs == {<<>>, <<"c">>}

RegionLists == ListsUpTo({"root", "TH", "zz"}, MaxItems)

Hemispheres == {"both", "left", "right"}

(******************************* actions ***********************************)
NoSceneCall ==
    [op |-> "none", items |-> <<>>, names |-> <<>>, classes |-> <<>>, regions |-> <<>>,
     before |-> <<>>, err |-> "none", ret |-> ReturnListSmart(<<>>)]

NoCall == [op |-> "none", n |-> 0, origin |-> ZeroVec, a |-> ZeroVec, b |-> ZeroVec]

InitPlane ==
    /\ call = NoCall
    /\ plane = <<>>
    /\ err = "none"
    /\ proj = <<>>
    /\ actors = <<>>
    /\ todo = {}
    /\ projected = <<>>
    /\ gpc = "idle"
    /\ run = 0
    /\ ret = <<>>
    /\ sceneActors = <<>>
    /\ nextId = 1
    /\ sret = NoSceneCall

\* Plane(origin, u, v).  A Plane has no mutators: a session builds one plane,
\* uses it and drops it, so a constructor runs when no plane is held.
NewPlane(origin, u, v) ==
    LET r == PlaneInit(origin, u, v)
    IN  /\ call' = [op |-> "Plane", n |-> call.n + 1, origin |-> origin, a |-> u, b |-> v]
        /\ plane' = r.plane
        /\ err' = r.err
        /\ proj' = <<>>
        /\ UNCHANGED sliceVars
        /\ UNCHANGED sceneVars

\* Plane.from_norm(origin, norm)
FromNorm(origin, norm) ==
    /\ call' = [op |-> "from_norm", n |-> call.n + 1, origin |-> origin, a |-> norm, b |-> ZeroVec]
    /\ proj' = <<>>
    /\ UNCHANGED sliceVars
    /\ UNCHANGED sceneVars
    /\ IF WhereNonZero(norm) = <<>>
       THEN /\ plane' = <<>>
            /\ err' = "IndexError"
       ELSE \E m \in FirstNonZero(norm) :
                LET r == FromNormAt(origin, norm, m)
                IN  /\ plane' = r.plane
                    /\ err' = r.err

\* plane.P3toP2([p]) for p = origin + a * plane.u + b * plane.v
Project(a, b) ==
    /\ LET pl == plane[1]
           p == VAdd(VAdd(pl.center, VScale(Int2R(a), pl.u)), VScale(Int2R(b), pl.v))
       IN  proj' = << [a |-> a, b |-> b, p |-> p, out |-> P3toP2(pl, <<p>>)] >>
    /\ UNCHANGED <<call, plane, err>>
    /\ UNCHANGED sliceVars
    /\ UNCHANGED sceneVars

\* the plane (or the failed call) is dropped
Discard ==
    /\ call.op # "none"
    /\ call' = NoCall
    /\ plane' = <<>>
    /\ err' = "none"
    /\ proj' = <<>>
    /\ actors' = <<>>
    /\ todo' = {}
    /\ projected' = <<>>
    /\ gpc' = "idle"
    /\ run' = 0
    /\ ret' = <<>>
    /\ UNCHANGED sceneVars

\* plane.get_projections(as) is called: projected = {}
GetProjectionsCall(as) ==
    /\ actors' = as
    /\ todo' = 1..Len(as)
    /\ projected' = <<>>
    /\ gpc' = "loop"
    /\ run' = 1
    /\ ret' = <<>>
    /\ UNCHANGED planeVars
    /\ UNCHANGED sceneVars

\* one pass of `for actor in actors`
GetProjectionsIter ==
    /\ gpc = "loop"
    /\ todo # {}
    /\ \E k \in NextActor(todo) :
          /\ projected' = LoopBody(plane[1], projected, actors[k])
          /\ todo' = todo \ {k}
    /\ UNCHANGED <<actors, gpc, run, ret>>
    /\ UNCHANGED planeVars
    /\ UNCHANGED sceneVars

\* return projected
GetProjectionsReturn ==
    /\ gpc = "loop"
    /\ todo = {}
    /\ gpc' = "done"
    /\ UNCHANGED <<actors, todo, projected, run, ret>>
    /\ UNCHANGED planeVars
    /\ UNCHANGED sceneVars

\* plane.get_projections is called a second time with the same actors
GetProjectionsAgain ==
    /\ gpc = "done"
    /\ run = 1
    /\ ret' = <<projected>>
    /\ run' = 2
    /\ todo' = 1..Len(actors)
    /\ projected' = <<>>
    /\ gpc' = "loop"
    /\ UNCHANGED actors
    /\ UNCHANGED planeVars
    /\ UNCHANGED sceneVars

NextPlane ==
    \/ /\ call.op = "none"
       /\ \E o \in Origins, u \in Vectors, v \in Vectors : NewPlane(o, u, v)
    \/ /\ call.op \in {"none", "from_norm"}
       /\ call.n < 2
       /\ proj = <<>>
       /\ \E o \in Origins, n \in Normals : FromNorm(o, n)
    \/ /\ plane # <<>>
       /\ proj = <<>>
       /\ \E a \in Scalars, b \in Scalars : Project(a, b)
    \/ Discard

SpecPlane == InitPlane /\ [][NextPlane]_vars

NextSlice ==
    \/ /\ call.op = "none"
       /\ \E o \in Origins, uv \in SliceAxes : NewPlane(o, uv[1], uv[2])
    \/ /\ call.op \in {"none", "from_norm"}
       /\ call.n < 2
       /\ gpc = "idle"
       /\ \E o \in Origins, n \in SliceNormals : FromNorm(o, n)
    \/ /\ plane # <<>>
       /\ gpc = "idle"
       /\ \E as \in ActorLists : GetProjectionsCall(as)
    \/ GetProjectionsIter
    \/ GetProjectionsReturn
    \/ GetProjectionsAgain
    \/ Discard

SpecSlice == InitPlane /\ [][NextSlice]_vars

\* Scene2D(root): add_brain_region("root"), removed again when root is False
InitScene ==
    /\ call = NoCall
    /\ plane = <<>>
    /\ err = "none"
    /\ proj = <<>>
    /\ actors = <<>>
    /\ todo = {}
    /\ projected = <<>>
    /\ gpc = "idle"
    /\ run = 0
    /\ ret = <<>>
    /\ \E root \in BOOLEAN :
          LET r == AddBrainRegion(<<>>, 1, <<"root">>, "both")
          IN  /\ sceneActors = IF root THEN r.scene ELSE RemoveAll(r.scene, r.ret.actors)
              /\ nextId = r.id
    /\ sret = NoSceneCall

Returned(op, items, names, classes, regions, r) ==
    /\ r.id <= MaxIds + 1
    /\ sceneActors' = r.scene
    /\ nextId' = r.id
    /\ sret' = [op |-> op, items |-> items, names |-> names, classes |-> classes,
                regions |-> regions, before |-> sceneActors, err |-> r.err, ret |-> r.ret]
    /\ UNCHANGED planeVars
    /\ UNCHANGED sliceVars

\* scene.add(*items, names=names, classes=classes)
SceneAdd(items, names, classes) ==
    Returned("add", items, names, classes, <<>>,
             Add(sceneActors, nextId, items, names, classes))

\* scene.add_brain_region(*regions, hemisphere=hemisphere)
SceneAddBrainRegion(regions, hemisphere) ==
    Returned("add_brain_region", <<>>, <<>>, <<>>, regions,
             AddBrainRegion(sceneActors, nextId, regions, hemisphere))

\* scene.remove(*acts)
SceneRemove(acts) ==
    Returned("remove", <<>>, <<>>, <<>>, <<>>,
             [scene |-> RemoveAll(sceneActors, acts), id |-> nextId,
              err |-> "none", ret |-> ReturnListSmart(<<>>)])

\* the Actor objects a caller can hold: those of the scene, and one of its own
Known == {sceneActors[i] : i \in DOMAIN sceneActors} \cup {ExtActor}

\* the caller is done with what the last call returned or raised
SceneContinue ==
    /\ sret.op # "none"
    /\ sret' = NoSceneCall
    /\ UNCHANGED <<sceneActors, nextId>>
    /\ UNCHANGED planeVars
    /\ UNCHANGED sliceVars

NextScene ==
    \/ /\ sret.op = "none"
       /\ Len(sceneActors) < MaxScene
       /\ \E items \in ItemLists \ UnloadableLists, names \in NameArgs, classes \in ClassArgs :
             SceneAdd(items, names, classes)
    \/ /\ sret.op = "none"
       /\ Len(sceneActors) < MaxScene
       /\ \E items \in UnloadableLists, names \in NameArgs, classes \in ClassArgs :
             SceneAdd(items, names, classes)
    \/ /\ sret.op = "none"
       /\ Len(sceneActors) < MaxScene
       /\ \E regions \in RegionLists, h \in Hemispheres : SceneAddBrainRegion(regions, h)
    \/ /\ sret.op = "none"
       /\ \E acts \in ListsUpTo(Known, MaxItems) : SceneRemove(acts)
    \/ SceneContinue

SpecScene == InitScene /\ [][NextScene]_vars

\* a scene used through add_brain_region and remove alone
NextRegions ==
    \/ /\ sret.op = "none"
       /\ Len(sceneActors) < MaxScene
       /\ \E regions \in RegionLists, h \in Hemispheres : SceneAddBrainRegion(regions, h)
    \/ /\ sret.op = "none"
       /\ \E acts \in ListsUpTo(Known, MaxItems) : SceneRemove(acts)
    \/ SceneContinue

SpecRegions == InitScene /\ [][NextRegions]_vars

(***************************************************************************)
(* Claims about the plane                                                  *)
(***************************************************************************)
One == Int2R(1)

Zero == Int2R(0)

\* u . v of two integer vectors, as an integer
IntDot(p, q) == p[1][1] * q[1][1] + p[2][1] * q[2][1] + p[3][1] * q[3][1]

\* C1 (as stated): for a plane built by Plane(origin, u, v) from orthogonal, not
\* necessarily unit-length u and v, the point origin + a*plane.u + b*plane.v is
\* projected by P3toP2 to exactly (a, b).
C1_RoundTrip ==
    (call.op = "Plane" /\ proj # <<>>) =>
        proj[1].out = << <<Int2R(proj[1].a), Int2R(proj[1].b)>> >>

\* C2 (as stated): Plane(origin, u, v) with non-orthogonal u, v fails with
\* GeometryError and produces no Plane.
C2_GeometryError ==
    (call.op = "Plane" /\ IntDot(call.a, call.b) # 0) =>
        (err = "GeometryError" /\ plane = <<>>)

\* C2 (amended): Plane(origin, u, v) fails with AssertionError, producing no
\* Plane, whenever the normalized u and v are not orthogonal, in particular for
\* u = v = (1,0,0); every Plane that exists has passed the orthogonality check.
C2_AssertionError ==
    call.op = "Plane" =>
        /\ IntDot(call.a, call.b) # 0 => (err = "AssertionError" /\ plane = <<>>)
        /\ plane # <<>> => (err = "none" /\ IntDot(call.a, call.b) = 0)

C2_Witness ==
    /\ call.op = "Plane"
    /\ call.a = Vec(1, 0, 0)
    /\ call.b = Vec(1, 0, 0)
    /\ err = "AssertionError"
    /\ plane = <<>>

\* the in-plane axis the claim C3 describes, before normalization
DerivedU(norm) ==
    LET m == CHOOSE i \in 0..2 :
                 norm[i + 1] # Zero /\ \A j \in 0..2 : j < i => norm[j + 1] = Zero
        n == (m + 1) % 3
    IN  [i \in 1..3 |->
            IF i = n + 1 THEN norm[m + 1]
            ELSE IF i = m + 1 THEN RNeg(norm[n + 1])
            ELSE Zero]

\* C3 (as stated): from_norm fails with GeometryError for the zero normal.
C3_GeometryError ==
    (call.op = "from_norm" /\ call.a = ZeroVec) => err = "GeometryError"

\* C3 (amended): from_norm fails with IndexError for the zero normal, and for
\* every non-zero normal it succeeds, with u the normalization of the derived
\* axis (u[n] = norm[m], u[m] = -norm[n], m the lowest non-zero index,
\* n = (m+1) mod 3), which is never the zero vector.
C3_IndexError ==
    call.op = "from_norm" =>
        /\ call.a = ZeroVec => (err = "IndexError" /\ plane = <<>>)
        /\ call.a # ZeroVec =>
              /\ err = "none"
              /\ plane # <<>>
              /\ DerivedU(call.a) # ZeroVec
              /\ VScale(Norm(DerivedU(call.a)), plane[1].u) = DerivedU(call.a)

C3_Witness ==
    /\ call.op = "from_norm"
    /\ call.a = Vec(0, 3, 4)
    /\ plane # <<>>
    /\ plane[1].u = VDiv(Vec(0, -4, 3), Int2R(5))

\* C4: every constructed Plane has |u| = 1, |v| = 1, u.v = 0, u.normal = 0 and
\* v.normal = 0, whichever constructor built it.
C4_Orthonormal ==
    plane # <<>> =>
        /\ Dot(plane[1].u, plane[1].u) = One
        /\ Dot(plane[1].v, plane[1].v) = One
        /\ Dot(plane[1].u, plane[1].v) = Zero
        /\ Dot(plane[1].u, plane[1].normal) = Zero
        /\ Dot(plane[1].v, plane[1].normal) = Zero

C4_Witness ==
    /\ call.op = "Plane"
    /\ plane # <<>>
    /\ Dot(call.a, call.a) # One
    /\ Dot(call.b, call.b) # One

\* C9: for a non-zero norm, the plane of from_norm(origin, norm) has
\* normal = norm / |norm| (same sign) and center = origin.
C9_NormalKept ==
    (call.op = "from_norm" /\ call.a # ZeroVec) =>
        /\ plane # <<>>
        /\ VScale(Norm(call.a), plane[1].normal) = call.a
        /\ plane[1].center = call.origin

C9_Witness ==
    /\ call.op = "from_norm"
    /\ call.a = Vec(0, 0, -2)
    /\ call.origin = Vec(1, -2, 3)
    /\ plane # <<>>
    /\ plane[1].normal = Vec(0, 0, -1)

(***************************************************************************)
(* Claims about get_projections                                            *)
(***************************************************************************)
\* the pieces the plane cuts from the k-th actor
Pieces(k) == IntersectWith(plane[1], ActorMesh(actors[k]))

Meets(k) == NumPoints(Pieces(k)) > 0

RECURSIVE SumPieces(_)
SumPieces(k) == IF k = 0 THEN 0 ELSE Len(Pieces(k)) + SumPieces(k - 1)

Lookup(d, key) == d[CHOOSE i \in DOMAIN d : d[i].key = key].value

KeySet(d) == {d[i].key : i \in DOMAIN d}

EveryPieceEmitted ==
    /\ Len(projected) = SumPieces(Len(actors))
    /\ \A k \in DOMAIN actors : \A i \in DOMAIN Pieces(k) :
          /\ HasKey(projected, actors[k].name \o "_segment_" \o ToString(i - 1))
          /\ Lookup(projected, actors[k].name \o "_segment_" \o ToString(i - 1))
                = P3toP2(plane[1], Pieces(k)[i])

\* C5 (as stated): for any list of actors, the mapping get_projections returns
\* has one entry "{name}_segment_{i}" per connected piece, holding that piece's
\* projection; the number of entries is the total number of pieces.
C5_AnyActors == gpc = "done" => EveryPieceEmitted

\* C5 (amended): the same, for a list in which no two actors that meet the
\* plane have the same name.
C5_DistinctNames ==
    (/\ gpc = "done"
     /\ \A j, k \in DOMAIN actors :
           (j # k /\ Meets(j) /\ Meets(k)) => actors[j].name # actors[k].name)
    => EveryPieceEmitted

C5_Witness ==
    /\ gpc = "done"
    /\ Len(actors) = 2
    /\ actors[1].name # actors[2].name
    /\ Len(Pieces(1)) = 2
    /\ Len(Pieces(2)) = 1
    /\ Len(projected) = 3

\* C6: an actor whose intersection has zero points adds no key and raises
\* nothing; the loop goes on, and the keys of the mapping are exactly those of
\* the pieces of the actors that meet the plane.
C6_EmptySkipped ==
    gpc \in {"loop", "done"} =>
        KeySet(projected) =
            UNION {{actors[k].name \o "_segment_" \o ToString(i - 1) : i \in DOMAIN Pieces(k)} :
                      k \in (DOMAIN actors) \ todo}

C6_Witness ==
    /\ gpc = "done"
    /\ Len(actors) = 2
    /\ ~Meets(1)
    /\ Meets(2)
    /\ actors[1].name # actors[2].name
    /\ KeySet(projected) = {actors[2].name \o "_segment_0"}

IsRegion(a) == a.br_class = "brain region"

\* C8 (as stated): whatever add_brain_region and remove calls were made, no two
\* "brain region" actors of the scene have the same name, and a call whose
\* regions are all in the scene already returns None and changes nothing.
C8_NoRegionTwice ==
    /\ \A i, j \in DOMAIN sceneActors :
          (i # j /\ IsRegion(sceneActors[i]) /\ IsRegion(sceneActors[j]))
              => sceneActors[i].name # sceneActors[j].name
    /\ (/\ sret.op = "add_brain_region"
        /\ \A k \in DOMAIN sret.regions :
              \E i \in DOMAIN sret.before :
                  IsRegion(sret.before[i]) /\ sret.before[i].name = sret.regions[k])
       => (sret.ret.kind = "None" /\ sret.err = "none" /\ sceneActors = sret.before)

Unrecognized(item) == item.kind = "int"

\* the items of the last add() call that are not None
NotNone == SelectSeq(sret.items, LAMBDA it : it.kind # "None")

\* what add() appended to the scene
Appended == SubSeq(sceneActors, Len(sret.before) + 1, Len(sceneActors))

OnePerItem ==
    /\ Len(sceneActors) = Len(sret.before) + Len(NotNone)
    /\ SubSeq(sceneActors, 1, Len(sret.before)) = sret.before
    /\ \A j \in DOMAIN NotNone :
          /\ NotNone[j].kind = "Actor" => Appended[j] = NotNone[j].actor
          /\ NotNone[j].kind # "Actor" =>
                /\ Appended[j].is_text = (NotNone[j].kind = "Text2D")
                /\ \A i \in DOMAIN sret.before : sret.before[i].id # Appended[j].id
                /\ \A h \in DOMAIN NotNone : h # j => Appended[h].id # Appended[j].id

AllOrNothing ==
    IF \E i \in DOMAIN sret.items : Unrecognized(sret.items[i])
    THEN sret.err = "ValueError" /\ sceneActors = sret.before
    ELSE sret.err = "none" /\ OnePerItem

\* C10 (as stated): add() with an item of an unrecognized type raises ValueError
\* and leaves scene.actors as it was; with none, scene.actors is the previous
\* list followed by one actor per non-None item, in argument order.
C10_AllOrNothing == sret.op = "add" => AllOrNothing

\* names= and classes= are omitted (or empty) or at least as long as items
CoversItems(arg) == arg = <<>> \/ Len(arg) >= Len(sret.items)

\* C10 (amended): whenever add() raises, scene.actors is as it was before the
\* call; and when names and classes are each omitted or at least as long as
\* the items and every path item names a file that loads, the claim holds as
\* stated.
C10_AllOrNothingZipped ==
    sret.op = "add" =>
        /\ sret.err # "none" => sceneActors = sret.before
        /\ (/\ CoversItems(sret.names)
            /\ CoversItems(sret.classes)
            /\ \A i \in DOMAIN sret.items : sret.items[i].kind # "missing.obj")
           => AllOrNothing

C10_Witness ==
    /\ sret.op = "add"
    /\ Len(sret.items) = 2
    /\ sret.items[1].kind = "Mesh"
    /\ sret.items[2].kind = "int"
    /\ sret.err = "ValueError"
    /\ sret.before # <<>>
    /\ sceneActors = sret.before

====
